---- MODULE Spec2Model ----
(***************************************************************************)
(* The ChEMBL SQL agent of backend/app/api/routes.py: the three request    *)
(* handlers chembl_run, chembl_edit and chembl_reexecute, the agent        *)
(* pipeline they call on the LLMModel (gate, retrieval, synthesis,         *)
(* execute-and-repair loop), and the process-wide session store.           *)
(*                                                                         *)
(* A request is a task that is suspended at every external collaborator    *)
(* call (classification, retrieval, synthesis, execution); the code that   *)
(* runs between two collaborator calls is one atomic step.                 *)
(***************************************************************************)
EXTENDS Integers, Sequences, FiniteSets, TLC

VARIABLES
    store,   \* session store: memory_id -> last state set under it
    db,      \* the database behind the executor: SQL text -> "ok" | "err"
    pc,      \* per task: the collaborator call it is suspended at
    req,     \* per task: the request payload
    loc,     \* per task: the locals of the pipeline call in progress
    out,     \* per task: what the handler returned or raised
    calls,   \* per task: collaborator calls made by the request so far
    budget,  \* requests the server will still accept
    last     \* the reexecute answered last, while no other request came since

vars == <<store, db, pc, req, loc, out, calls, budget, last>>

-----------------------------------------------------------------------------
(* Bounds of the model *)

MaxCalls == 3      \* requests served one at a time in one behaviour
MaxConcurrentCalls == 2   \* requests served concurrently in one behaviour
DbRows == 2        \* rows a valid query has in the database

\* requests in flight at once
Tasks == {1, 2}

\* the task that serves the requests when they are served one at a time
EventLoop == {1}

-----------------------------------------------------------------------------
(* Values *)

SP == " "

\* SQL texts are sequences of characters; the synthesizer may return an
\* empty text, a whitespace-only text or a statement.
EmptyText == << >>
SqlA == <<"A">>
SqlB == <<"B">>
Statements == {SqlA, SqlB}
SynthTexts == {EmptyText, <<SP>>} \cup Statements

Ids == {"m1", "m2"}
NoId == ""                 \* memory_id not supplied (None)
Limits == {-1, 0, 1, 3}    \* limits a reexecute request may carry

\* The fixed maximum of repair attempts of the execute-and-repair loop.
MAX_RETRIES == 2

\* The limit chembl_run passes to the pipeline.
RUN_LIMIT == 100

\* The limit chembl_apply_edit executes with.
EDIT_LIMIT == 100

\* str.strip() on a text: drop leading and trailing whitespace.
RECURSIVE LStrip(_)
LStrip(s) == IF s # << >> /\ Head(s) = SP THEN LStrip(Tail(s)) ELSE s

RECURSIVE RStrip(_)
RStrip(s) ==
    IF s # << >> /\ s[Len(s)] = SP THEN RStrip(SubSeq(s, 1, Len(s) - 1)) ELSE s

Strip(s) == RStrip(LStrip(s))

\* A dict-shaped state: a function from the keys present to their values.
EmptyDict == [k \in {} |-> TRUE]

\* dict.get(key, default)
Get(d, k, default) == IF k \in DOMAIN d THEN d[k] ELSE default

\* dict with d[k] = v assigned
Put(d, k, v) == [x \in (DOMAIN d) \cup {k} |-> IF x = k THEN v ELSE d[x]]

\* Python truthiness of a dict or None
Truthy(d) == DOMAIN d # {}

Min(a, b) == IF a <= b THEN a ELSE b

-----------------------------------------------------------------------------
(* The external collaborators *)

Prompts == {"list approved drugs"}
Instructions == {"add a filter"}
ApiKeys == {"key", ""}

\* check_model_running(api_key): raises ValueError without a usable key.
CheckModelRunning(api_key) == api_key # ""

\* retrieve_context: the tables judged relevant
Tables == <<"molecule_dictionary">>

\* The databases the executor may run against: which statements execute
\* and which raise an ExecutionError.
Databases ==
    {[s \in Statements |-> IF s = SqlA THEN "ok" ELSE "err"],
     [s \in Statements |-> "ok"]}

\* execute_sql(sql, limit): does the database accept the statement
DbAccepts(sql) == db[Strip(sql)] = "ok"

\* execute_sql(sql, limit) on a statement the database accepts
Columns(sql) == IF sql = SqlA THEN <<"c1">> ELSE <<"c1", "c2">>
\* an executor whose row order depends on when it is asked
RowsUnstable(sql, limit) ==
    [i \in 1..Min(IF limit < 0 THEN 0 ELSE limit, DbRows) |->
        [j \in 1..Len(Columns(sql)) |-> i + budget]]

Rows(sql, limit) ==
    [i \in 1..Min(IF limit < 0 THEN 0 ELSE limit, DbRows) |->
        [j \in 1..Len(Columns(sql)) |-> i]]

-----------------------------------------------------------------------------
(* Exceptions and handler outcomes *)

Exc(type, detail) == [type |-> type, detail |-> detail]

NoOut == [kind |-> "none", exc |-> "", status |-> 0, detail |-> "", body |-> EmptyDict]
Ok(body) == [kind |-> "ok", exc |-> "", status |-> 200, detail |-> "", body |-> body]

\* raise HTTPException(status_code=..., detail=...)
HTTPException(status, detail) ==
    [kind |-> "raise", exc |-> "HTTPException", status |-> status,
     detail |-> detail, body |-> EmptyDict]

\* an exception the handler lets through is answered as a server error
Propagate(e) ==
    [kind |-> "raise", exc |-> e.type, status |-> 500,
     detail |-> e.detail, body |-> EmptyDict]

UnknownSessionDetail == "Unknown memory_id; run a query first."
NoStoredSqlDetail == "No SQL present for this session."
NoBaseSqlDetail == "no base SQL"

-----------------------------------------------------------------------------
(* Session store *)

chembl_session_get(id) == IF id \in DOMAIN store THEN store[id] ELSE EmptyDict

\* a set that updates the entry in place instead of replacing it
SessionSetMerges(id, state) ==
    LET old == IF id \in DOMAIN store THEN store[id] ELSE EmptyDict
    IN Put(store, id,
           [k \in (DOMAIN old) \cup (DOMAIN state) |->
               IF k \in DOMAIN state THEN state[k] ELSE old[k]])

chembl_session_set(id, state) == Put(store, id, state)

-----------------------------------------------------------------------------
(* The states the pipeline returns *)

GateState ==
    [not_chembl |-> TRUE, chembl_reason |-> "out of scope",
     sql |-> EmptyText, retries |-> 0]

NoContextState == [no_context |-> TRUE]

\* a loop result that adds the retries the session already had
LoopStateAccumulates(l, cols, rows) ==
    [sql |-> l.sql, structured_tables |-> l.tables,
     columns |-> cols, rows |-> rows,
     retries |-> l.retries + l.prior_retries,
     repaired |-> l.retries + l.prior_retries > 0,
     optimized_guidelines |-> "guidelines"]

\* l: the locals of the loop; cols, rows: the result of the last execution
LoopState(l, cols, rows) ==
    [sql |-> l.sql, structured_tables |-> l.tables,
     columns |-> cols, rows |-> rows,
     retries |-> l.retries, repaired |-> l.retries > 0,
     optimized_guidelines |-> "guidelines"]

-----------------------------------------------------------------------------
(* What the handlers build from a state *)

\* chembl_run reporting the attempts made instead of the retries consumed
RunResponseCountsAttempts(state, payload) ==
    [sql |-> Get(state, "sql", EmptyText),
     related_tables |-> Get(state, "structured_tables", << >>),
     columns |-> Get(state, "columns", << >>),
     rows |-> Get(state, "rows", << >>),
     retries |-> Get(state, "retries", 0) + 1,
     repaired |-> Get(state, "retries", 0) > 0,
     no_context |-> Get(state, "no_context", FALSE),
     not_chembl |-> Get(state, "not_chembl", FALSE),
     chembl_reason |-> Get(state, "chembl_reason", ""),
     optimized_guidelines |-> Get(state, "optimized_guidelines", ""),
     memory_id |-> payload.memory_id]

\* chembl_run reading not_chembl from the wrong key
RunResponseWrongFlag(state, payload) ==
    [sql |-> Get(state, "sql", EmptyText),
     related_tables |-> Get(state, "structured_tables", << >>),
     columns |-> Get(state, "columns", << >>),
     rows |-> Get(state, "rows", << >>),
     retries |-> Get(state, "retries", 0),
     repaired |-> Get(state, "retries", 0) > 0,
     no_context |-> Get(state, "no_context", FALSE),
     not_chembl |-> Get(state, "no_context", FALSE),
     chembl_reason |-> Get(state, "chembl_reason", ""),
     optimized_guidelines |-> Get(state, "optimized_guidelines", ""),
     memory_id |-> payload.memory_id]

\* chembl_run deriving repaired with >= in place of >
RunResponseRepairedAlways(state, payload) ==
    [sql |-> Get(state, "sql", EmptyText),
     related_tables |-> Get(state, "structured_tables", << >>),
     columns |-> Get(state, "columns", << >>),
     rows |-> Get(state, "rows", << >>),
     retries |-> Get(state, "retries", 0),
     repaired |-> Get(state, "retries", 0) >= 0,
     no_context |-> Get(state, "no_context", FALSE),
     not_chembl |-> Get(state, "not_chembl", FALSE),
     chembl_reason |-> Get(state, "chembl_reason", ""),
     optimized_guidelines |-> Get(state, "optimized_guidelines", ""),
     memory_id |-> payload.memory_id]

\* chembl_run returning the sql only when there are rows
RunResponseSqlOnlyWithRows(state, payload) ==
    [sql |-> IF Get(state, "rows", << >>) = << >>
                 THEN EmptyText ELSE Get(state, "sql", EmptyText),
     related_tables |-> Get(state, "structured_tables", << >>),
     columns |-> Get(state, "columns", << >>),
     rows |-> Get(state, "rows", << >>),
     retries |-> Get(state, "retries", 0),
     repaired |-> Get(state, "retries", 0) > 0,
     no_context |-> Get(state, "no_context", FALSE),
     not_chembl |-> Get(state, "not_chembl", FALSE),
     chembl_reason |-> Get(state, "chembl_reason", ""),
     optimized_guidelines |-> Get(state, "optimized_guidelines", ""),
     memory_id |-> payload.memory_id]

\* chembl_run reading no_context from a key the state does not have
RunResponseNoContextLost(state, payload) ==
    [sql |-> Get(state, "sql", EmptyText),
     related_tables |-> Get(state, "structured_tables", << >>),
     columns |-> Get(state, "columns", << >>),
     rows |-> Get(state, "rows", << >>),
     retries |-> Get(state, "retries", 0),
     repaired |-> Get(state, "retries", 0) > 0,
     no_context |-> Get(state, "nocontext", FALSE),
     not_chembl |-> Get(state, "not_chembl", FALSE),
     chembl_reason |-> Get(state, "chembl_reason", ""),
     optimized_guidelines |-> Get(state, "optimized_guidelines", ""),
     memory_id |-> payload.memory_id]

\* chembl_run: the response dict
RunResponse(state, payload) ==
    [sql |-> Get(state, "sql", EmptyText),
     related_tables |-> Get(state, "structured_tables", << >>),
     columns |-> Get(state, "columns", << >>),
     rows |-> Get(state, "rows", << >>),
     retries |-> Get(state, "retries", 0),
     repaired |-> Get(state, "retries", 0) > 0,
     no_context |-> Get(state, "no_context", FALSE),
     not_chembl |-> Get(state, "not_chembl", FALSE),
     chembl_reason |-> Get(state, "chembl_reason", ""),
     optimized_guidelines |-> Get(state, "optimized_guidelines", ""),
     memory_id |-> payload.memory_id]

\* chembl_edit reading the retries from a key the state does not have
EditResponseLosesRetries(state) ==
    [sql |-> Get(state, "sql", EmptyText),
     related_tables |-> Get(state, "structured_tables", << >>),
     columns |-> Get(state, "columns", << >>),
     rows |-> Get(state, "rows", << >>),
     retries |-> Get(state, "retry", 0),
     repaired |-> Get(state, "repaired", FALSE),
     no_context |-> Get(state, "no_context", FALSE),
     not_chembl |-> Get(state, "not_chembl", FALSE),
     chembl_reason |-> Get(state, "chembl_reason", ""),
     optimized_guidelines |-> Get(state, "optimized_guidelines", "")]

\* chembl_edit reading repaired from a key the state does not have
EditResponseRepairedLost(state) ==
    [sql |-> Get(state, "sql", EmptyText),
     related_tables |-> Get(state, "structured_tables", << >>),
     columns |-> Get(state, "columns", << >>),
     rows |-> Get(state, "rows", << >>),
     retries |-> Get(state, "retries", 0),
     repaired |-> Get(state, "repair", FALSE),
     no_context |-> Get(state, "no_context", FALSE),
     not_chembl |-> Get(state, "not_chembl", FALSE),
     chembl_reason |-> Get(state, "chembl_reason", ""),
     optimized_guidelines |-> Get(state, "optimized_guidelines", "")]

\* chembl_edit: ChemblSqlEditResponse(...)
EditResponse(state) ==
    [sql |-> Get(state, "sql", EmptyText),
     related_tables |-> Get(state, "structured_tables", << >>),
     columns |-> Get(state, "columns", << >>),
     rows |-> Get(state, "rows", << >>),
     retries |-> Get(state, "retries", 0),
     repaired |-> Get(state, "repaired", FALSE),
     no_context |-> Get(state, "no_context", FALSE),
     not_chembl |-> Get(state, "not_chembl", FALSE),
     chembl_reason |-> Get(state, "chembl_reason", ""),
     optimized_guidelines |-> Get(state, "optimized_guidelines", "")]

\* chembl_reexecute: ChemblSqlReexecuteResponse(columns=cols, rows=rows)
ReexecuteResponse(cols, rows) == [columns |-> cols, rows |-> rows]

\* chembl_run answering an unexpected exception with an empty result
RunRaiseSwallows(e) ==
    IF e.type = "ValueError" THEN HTTPException(400, e.detail)
    ELSE Ok(RunResponse(EmptyDict, [memory_id |-> NoId]))

\* chembl_run: except ValueError -> 400; except Exception -> raise
RunRaise(e) ==
    IF e.type = "ValueError" THEN HTTPException(400, e.detail) ELSE Propagate(e)

\* chembl_edit: except Exception -> raise
EditRaise(e) == Propagate(e)

\* chembl_reexecute answering a failed execution with an empty result
ReexecuteRaiseEmptyResult(e) == Ok(ReexecuteResponse(<< >>, << >>))

\* chembl_reexecute: except Exception -> raise
ReexecuteRaise(e) == Propagate(e)

-----------------------------------------------------------------------------
(* Initial state *)

NoReq ==
    [op |-> "none", prompt |-> "", memory_id |-> NoId, api_key |-> "",
     instruction |-> "", prev_sql |-> EmptyText, limit |-> 0]

\* prior: the sql the session held when a run on its id arrived;
\* prior_retries: the retries it held when an edit of it arrived
NoLoc ==
    [sql |-> EmptyText, retries |-> 0, tables |-> << >>, err |-> "",
     base |-> EmptyText, verdict |-> "", executed |-> FALSE,
     prior |-> EmptyText, prior_retries |-> 0]

NoCalls == [classify |-> 0, retrieve |-> 0, synth |-> 0, exec |-> 0, failed |-> 0]

\* the request answered last was not a reexecute
NoLast == [id |-> NoId, limit |-> 0, out |-> NoOut, again |-> FALSE]

Init ==
    /\ store = EmptyDict
    /\ db \in Databases
    /\ pc = [p \in Tasks |-> "idle"]
    /\ req = [p \in Tasks |-> NoReq]
    /\ loc = [p \in Tasks |-> NoLoc]
    /\ out = [p \in Tasks |-> NoOut]
    /\ calls = [p \in Tasks |-> NoCalls]
    /\ budget = MaxCalls
    /\ last = NoLast

-----------------------------------------------------------------------------
(* Steps shared by the handlers *)

Bump(c, k) == [c EXCEPT ![k] = @ + 1]

\* the handler of task p returns or raises o; the store becomes st
Return(p, o, st) ==
    /\ pc' = [pc EXCEPT ![p] = "done"]
    /\ out' = [out EXCEPT ![p] = o]
    /\ store' = st
    /\ LET r == IF pc[p] = "idle" THEN req'[p] ELSE req[p]   \* the request served
       IN last' = IF r.op = "reexecute"
                      THEN [id |-> r.memory_id, limit |-> r.limit, out |-> o,
                            again |-> (last # NoLast /\ last.id = r.memory_id
                                          /\ last.limit = r.limit)]
                  ELSE NoLast

\* a transport or credential failure of a collaborator call
CollaboratorFailure == Exc("CollaboratorFailure", "collaborator call failed")

\* chembl_run persisting only a state that has SQL
RunFinishKeepsSessionWithSql(p, state) ==
    LET st == Put(state, "prompt", req[p].prompt)
    IN Return(p, Ok(RunResponse(st, req[p])),
              IF req[p].memory_id # NoId /\ Get(st, "sql", EmptyText) # EmptyText
                  THEN chembl_session_set(req[p].memory_id, st)
                  ELSE store)

\* chembl_run after run_chembl_full returned `state`: attach the prompt,
\* persist under memory_id when one was given, build the response
RunFinish(p, state) ==
    LET st == Put(state, "prompt", req[p].prompt)
    IN Return(p, Ok(RunResponse(st, req[p])),
              IF req[p].memory_id # NoId
                  THEN chembl_session_set(req[p].memory_id, st)
                  ELSE store)

\* chembl_apply_edit stores its result under the id and returns it;
\* chembl_edit builds the response from it
EditFinish(p, state) ==
    Return(p, Ok(EditResponse(state)),
           chembl_session_set(req[p].memory_id, state))

\* the call in progress of task p ends with `state`
Finish(p, state) ==
    IF req[p].op = "run" THEN RunFinish(p, state) ELSE EditFinish(p, state)

\* a failing call that leaves the candidate it was working on in the session
RaiseKeepsCandidate(p, e) ==
    /\ Return(p, IF req[p].op = "run" THEN RunRaise(e)
                 ELSE IF req[p].op = "edit" THEN EditRaise(e)
                 ELSE ReexecuteRaise(e),
              IF req[p].memory_id # NoId /\ req[p].op \in {"run", "edit"}
                  THEN chembl_session_set(req[p].memory_id,
                                          [sql |-> loc[p].sql, retries |-> loc[p].retries])
                  ELSE store)
    /\ loc' = [loc EXCEPT ![p].err = e.type]

\* the collaborator call of task p raises e, which reaches the handler
Raise(p, e) ==
    /\ Return(p, IF req[p].op = "run" THEN RunRaise(e)
                 ELSE IF req[p].op = "edit" THEN EditRaise(e)
                 ELSE ReexecuteRaise(e),
              store)
    /\ loc' = [loc EXCEPT ![p].err = e.type]

-----------------------------------------------------------------------------
(* The row limit *)

\* an entry point that lets a limit of 0 through
ClampLimitAtZero(limit) == IF limit < 0 THEN 0 ELSE limit

\* the entry points of the LLMModel clamp the limit they are called with
\* to a positive integer before the pipeline sees it
ClampLimit(limit) == IF limit < 1 THEN 1 ELSE limit

\* the limit execute_sql receives in the call of task p
ExecLimit(p) == ClampLimit(req[p].limit)

-----------------------------------------------------------------------------
(* chembl_run: run_chembl_full(prompt, limit=100, api_key) *)

\* The request arrives; the pipeline checks the credentials and calls the
\* Domain Gate.
StartRun(p) ==
    /\ pc[p] = "idle"
    /\ budget > 0
    /\ budget' = budget - 1
    /\ \E prompt \in Prompts, id \in Ids \cup {NoId}, key \in ApiKeys :
        /\ req' = [req EXCEPT ![p] =
                [NoReq EXCEPT !.op = "run", !.prompt = prompt,
                              !.memory_id = id, !.api_key = key,
                              !.limit = RUN_LIMIT]]
        /\ loc' = [loc EXCEPT ![p] =
               [NoLoc EXCEPT !.prior = Get(chembl_session_get(id), "sql", EmptyText)]]
        /\ calls' = [calls EXCEPT ![p] = NoCalls]
        /\ IF CheckModelRunning(key)
              THEN /\ pc' = [pc EXCEPT ![p] = "classify"]
                   /\ out' = [out EXCEPT ![p] = NoOut]
                   /\ store' = store
                   /\ last' = NoLast
              ELSE Return(p, RunRaise(Exc("ValueError", "api key required")), store)
    /\ UNCHANGED db

\* classify_domain(prompt) answers
Classify(p) ==
    /\ pc[p] = "classify"
    /\ calls' = [calls EXCEPT ![p] = Bump(@, "classify")]
    /\ \/ \* in scope: go on to retrieval
          /\ pc' = [pc EXCEPT ![p] = "retrieve"]
          /\ loc' = [loc EXCEPT ![p].verdict = "in"]
          /\ UNCHANGED <<out, store, last>>
       \/ \* out of scope: the pipeline returns at once
          /\ Finish(p, GateState)
          /\ loc' = [loc EXCEPT ![p].verdict = "out"]
       \/ /\ Raise(p, CollaboratorFailure)
    /\ UNCHANGED <<db, req, budget>>

\* retrieve_context(prompt) answers
Retrieve(p) ==
    /\ pc[p] = "retrieve"
    /\ calls' = [calls EXCEPT ![p] = Bump(@, "retrieve")]
    /\ \/ /\ pc' = [pc EXCEPT ![p] = "synth"]
          /\ loc' = [loc EXCEPT ![p].tables = Tables]
          /\ UNCHANGED <<out, store, last>>
       \/ \* no context: terminal, not retried
          /\ Finish(p, NoContextState)
          /\ UNCHANGED loc
       \/ /\ Raise(p, CollaboratorFailure)
    /\ UNCHANGED <<db, req, budget>>

\* synthesize_sql(prompt, context) answers with the first candidate
Synthesize(p) ==
    /\ pc[p] = "synth"
    /\ calls' = [calls EXCEPT ![p] = Bump(@, "synth")]
    /\ \/ \E sql \in SynthTexts :
            /\ pc' = [pc EXCEPT ![p] = "exec"]
            /\ loc' = [loc EXCEPT ![p].sql = sql]
            /\ UNCHANGED <<out, store, last>>
       \/ /\ Raise(p, CollaboratorFailure)
    /\ UNCHANGED <<db, req, budget>>

-----------------------------------------------------------------------------
(* The execute-and-repair loop of run_chembl_full and chembl_apply_edit *)

\* a loop that starts the repair without keeping the error of the attempt
AttemptFailedForgetsError(p, err) ==
    IF loc[p].retries < MAX_RETRIES
        THEN /\ pc' = [pc EXCEPT ![p] = "resynth"]
             /\ loc' = [loc EXCEPT ![p].err = ""]
             /\ UNCHANGED <<out, store, last>>
        ELSE /\ Finish(p, LoopState(loc[p], << >>, << >>))
             /\ loc' = [loc EXCEPT ![p].err = err]

\* the attempt on loc[p].sql failed with `err`: repair while attempts are
\* left, else return the exhausted state
AttemptFailed(p, err) ==
    IF loc[p].retries < MAX_RETRIES
        THEN /\ pc' = [pc EXCEPT ![p] = "resynth"]
             /\ loc' = [loc EXCEPT ![p].err = err]
             /\ UNCHANGED <<out, store, last>>
        ELSE /\ Finish(p, LoopState(loc[p], << >>, << >>))
             /\ loc' = [loc EXCEPT ![p].err = err]

\* a loop that returns a blank candidate as it is, without a repair
ExecuteReturnsBlank(p) ==
    /\ pc[p] = "exec"
    /\ IF Strip(loc[p].sql) = EmptyText
          THEN /\ Finish(p, LoopState(loc[p], << >>, << >>))
               /\ UNCHANGED <<loc, calls>>
          ELSE \/ /\ DbAccepts(loc[p].sql)
                  /\ Finish(p, LoopState(loc[p], Columns(loc[p].sql),
                                         Rows(loc[p].sql, ExecLimit(p))))
                  /\ loc' = [loc EXCEPT ![p].executed = TRUE]
                  /\ calls' = [calls EXCEPT ![p] = Bump(@, "exec")]
               \/ /\ ~DbAccepts(loc[p].sql)
                  /\ AttemptFailed(p, "ExecutionError")
                  /\ calls' = [calls EXCEPT ![p] = Bump(Bump(@, "exec"), "failed")]
               \/ /\ Raise(p, CollaboratorFailure)
                  /\ calls' = [calls EXCEPT ![p] = Bump(@, "exec")]
    /\ UNCHANGED <<db, req, budget>>

\* execute_sql(sql, limit) answers, or the candidate is blank
Execute(p) ==
    /\ pc[p] = "exec"
    /\ IF Strip(loc[p].sql) = EmptyText
          THEN \* an empty candidate counts as a failed execution
               /\ AttemptFailed(p, "empty sql")
               /\ calls' = [calls EXCEPT ![p] = Bump(@, "failed")]
          ELSE \/ /\ DbAccepts(loc[p].sql)
                  /\ Finish(p, LoopState(loc[p], Columns(loc[p].sql),
                                         Rows(loc[p].sql, ExecLimit(p))))
                  /\ loc' = [loc EXCEPT ![p].executed = TRUE]
                  /\ calls' = [calls EXCEPT ![p] = Bump(@, "exec")]
               \/ /\ ~DbAccepts(loc[p].sql)
                  /\ AttemptFailed(p, "ExecutionError")
                  /\ calls' = [calls EXCEPT ![p] = Bump(Bump(@, "exec"), "failed")]
               \/ /\ Raise(p, CollaboratorFailure)
                  /\ calls' = [calls EXCEPT ![p] = Bump(@, "exec")]
    /\ UNCHANGED <<db, req, budget>>

\* synthesize_sql(prompt, context, prior_sql, prior_error) answers with a
\* corrected candidate; the attempt counter goes up
Resynthesize(p) ==
    /\ pc[p] = "resynth"
    /\ calls' = [calls EXCEPT ![p] = Bump(@, "synth")]
    /\ \/ \E sql \in SynthTexts :
            /\ pc' = [pc EXCEPT ![p] = "exec"]
            /\ loc' = [loc EXCEPT ![p].sql = sql,
                                  ![p].err = "",
                                  ![p].retries = @ + 1]
            /\ UNCHANGED <<out, store, last>>
       \/ /\ Raise(p, CollaboratorFailure)
    /\ UNCHANGED <<db, req, budget>>

-----------------------------------------------------------------------------
(* chembl_edit: check_model_running, chembl_apply_edit *)

\* the base SQL of an edit: the session's stored sql when the id is known
\* and has one, else the caller's prev_sql (EmptyText: none available)
BaseSql(prev, prev_sql) ==
    IF Truthy(prev) /\ Get(prev, "sql", EmptyText) # EmptyText
        THEN Get(prev, "sql", EmptyText)
        ELSE prev_sql

\* chembl_edit not handing the payload's prev_sql on
EditPrevSqlDropped(payload) == EmptyText

\* chembl_edit: the prev_sql the handler hands to chembl_apply_edit
EditPrevSql(payload) == payload.prev_sql

\* The request arrives; the base SQL is resolved and the synthesizer is
\* called in edit mode.
StartEdit(p) ==
    /\ pc[p] = "idle"
    /\ budget > 0
    /\ budget' = budget - 1
    /\ \E id \in Ids, ins \in Instructions, key \in ApiKeys,
          prev_sql \in {EmptyText} \cup Statements :
        LET payload == [NoReq EXCEPT !.op = "edit", !.memory_id = id,
                                     !.instruction = ins, !.api_key = key,
                                     !.prev_sql = prev_sql, !.limit = EDIT_LIMIT]
            prev == chembl_session_get(id)
            base == BaseSql(prev, EditPrevSql(payload))
        IN
        /\ req' = [req EXCEPT ![p] = payload]
        /\ calls' = [calls EXCEPT ![p] = NoCalls]
        /\ IF ~CheckModelRunning(key)
              THEN /\ Return(p, EditRaise(Exc("ValueError", "api key required")), store)
                   /\ loc' = [loc EXCEPT ![p] = NoLoc]
              ELSE IF base = EmptyText
              THEN /\ Return(p, EditRaise(Exc("ValueError", NoBaseSqlDetail)), store)
                   /\ loc' = [loc EXCEPT ![p] = NoLoc]
              ELSE /\ pc' = [pc EXCEPT ![p] = "edit_synth"]
                   /\ out' = [out EXCEPT ![p] = NoOut]
                   /\ store' = store
                   /\ last' = NoLast
                   /\ loc' = [loc EXCEPT ![p] =
                          [NoLoc EXCEPT !.base = base,
                              !.tables = Get(prev, "structured_tables", << >>),
                              !.prior_retries = Get(prev, "retries", 0)]]
    /\ UNCHANGED db

\* synthesize_sql(prompt, context, prior_sql = base, edit_instruction)
\* answers with the edited candidate
EditSynthesize(p) ==
    /\ pc[p] = "edit_synth"
    /\ calls' = [calls EXCEPT ![p] = Bump(@, "synth")]
    /\ \/ \E sql \in SynthTexts :
            /\ pc' = [pc EXCEPT ![p] = "exec"]
            /\ loc' = [loc EXCEPT ![p].sql = sql]
            /\ UNCHANGED <<out, store, last>>
       \/ /\ Raise(p, CollaboratorFailure)
    /\ UNCHANGED <<db, req, budget>>

-----------------------------------------------------------------------------
(* chembl_reexecute: check_model_running, session lookup, chembl_reexecute *)

\* chembl_reexecute without the `if not prev` check
PrecheckWithoutUnknown(prev) ==
    IF Strip(Get(prev, "sql", EmptyText)) = EmptyText
        THEN HTTPException(400, NoStoredSqlDetail)
    ELSE NoOut

\* chembl_reexecute without the .strip() of the stored sql
PrecheckWithoutStrip(prev) ==
    IF ~Truthy(prev)
        THEN HTTPException(400, UnknownSessionDetail)
    ELSE IF Get(prev, "sql", EmptyText) = EmptyText
        THEN HTTPException(400, NoStoredSqlDetail)
    ELSE NoOut

\* chembl_reexecute, between the lookup and the call of the LLMModel: the
\* failure the handler raises, or NoOut when it goes on
ReexecutePrecheck(prev) ==
    IF ~Truthy(prev)
        THEN HTTPException(400, UnknownSessionDetail)
    ELSE IF Strip(Get(prev, "sql", EmptyText)) = EmptyText
        THEN HTTPException(400, NoStoredSqlDetail)
    ELSE NoOut

\* The request arrives; the handler looks the session up and checks its
\* SQL, then LLMModel.chembl_reexecute looks it up again and calls the
\* executor with the stored SQL.
StartReexecute(p) ==
    /\ pc[p] = "idle"
    /\ budget > 0
    /\ budget' = budget - 1
    /\ \E id \in Ids, limit \in Limits, key \in ApiKeys :
        LET prev == chembl_session_get(id)
            again == chembl_session_get(id)
        IN
        /\ req' = [req EXCEPT ![p] =
                [NoReq EXCEPT !.op = "reexecute", !.memory_id = id,
                              !.api_key = key, !.limit = limit]]
        /\ calls' = [calls EXCEPT ![p] = NoCalls]
        /\ IF ~CheckModelRunning(key)
              THEN /\ Return(p, ReexecuteRaise(Exc("ValueError", "api key required")), store)
                   /\ loc' = [loc EXCEPT ![p] = NoLoc]
              ELSE IF ReexecutePrecheck(prev) # NoOut
              THEN /\ Return(p, ReexecutePrecheck(prev), store)
                   /\ loc' = [loc EXCEPT ![p] = NoLoc]
              ELSE /\ pc' = [pc EXCEPT ![p] = "reexec"]
                   /\ out' = [out EXCEPT ![p] = NoOut]
                   /\ store' = store
                   /\ last' = last
                   /\ loc' = [loc EXCEPT ![p] =
                          [NoLoc EXCEPT !.sql = Get(again, "sql", EmptyText)]]
    /\ UNCHANGED db

\* a reexecute that writes the new result into the session
ReexecuteExecutePersists(p) ==
    /\ pc[p] = "reexec"
    /\ calls' = [calls EXCEPT ![p] = Bump(@, "exec")]
    /\ \/ /\ DbAccepts(loc[p].sql)
          /\ Return(p, Ok(ReexecuteResponse(Columns(loc[p].sql),
                                            Rows(loc[p].sql, ExecLimit(p)))),
                    chembl_session_set(req[p].memory_id,
                        Put(Put(chembl_session_get(req[p].memory_id),
                                "columns", Columns(loc[p].sql)),
                            "rows", Rows(loc[p].sql, ExecLimit(p)))))
          /\ loc' = [loc EXCEPT ![p].executed = TRUE]
       \/ /\ ~DbAccepts(loc[p].sql)
          /\ Raise(p, Exc("ExecutionError", "statement failed"))
       \/ /\ Raise(p, CollaboratorFailure)
    /\ UNCHANGED <<db, req, budget>>

\* a reexecute that looks the stored SQL up only when the executor is free
ReexecuteExecuteLateLookup(p) ==
    LET sql == Get(chembl_session_get(req[p].memory_id), "sql", EmptyText)
    IN
    /\ pc[p] = "reexec"
    /\ calls' = [calls EXCEPT ![p] = Bump(@, "exec")]
    /\ IF Strip(sql) # EmptyText /\ DbAccepts(sql)
          THEN /\ Return(p, Ok(ReexecuteResponse(Columns(sql),
                                                 Rows(sql, ExecLimit(p)))),
                         store)
               /\ loc' = [loc EXCEPT ![p].sql = sql, ![p].executed = TRUE]
          ELSE /\ Return(p, ReexecuteRaise(Exc("ExecutionError", "statement failed")),
                         store)
               /\ loc' = [loc EXCEPT ![p].sql = sql, ![p].err = "ExecutionError"]
    /\ UNCHANGED <<db, req, budget>>

\* execute_sql(stored sql, limit) answers; nothing is stored
ReexecuteExecute(p) ==
    /\ pc[p] = "reexec"
    /\ calls' = [calls EXCEPT ![p] = Bump(@, "exec")]
    /\ \/ /\ DbAccepts(loc[p].sql)
          /\ Return(p, Ok(ReexecuteResponse(Columns(loc[p].sql),
                                            Rows(loc[p].sql, ExecLimit(p)))),
                    store)
          /\ loc' = [loc EXCEPT ![p].executed = TRUE]
       \/ /\ ~DbAccepts(loc[p].sql)
          /\ Raise(p, Exc("ExecutionError", "statement failed"))
       \/ /\ Raise(p, CollaboratorFailure)
    /\ UNCHANGED <<db, req, budget>>

-----------------------------------------------------------------------------
(* The response has been delivered; the task serves the next request. *)
Ack(p) ==
    /\ pc[p] = "done"
    /\ pc' = [pc EXCEPT ![p] = "idle"]
    /\ req' = [req EXCEPT ![p] = NoReq]
    /\ loc' = [loc EXCEPT ![p] = NoLoc]
    /\ out' = [out EXCEPT ![p] = NoOut]
    /\ calls' = [calls EXCEPT ![p] = NoCalls]
    /\ UNCHANGED <<store, db, budget, last>>

\* The handlers are coroutines that never await: the event loop runs one
\* request from its arrival to its response before it takes the next.
Next ==
    \E p \in EventLoop :
        \/ StartRun(p)
        \/ Classify(p)
        \/ Retrieve(p)
        \/ Synthesize(p)
        \/ Execute(p)
        \/ Resynthesize(p)
        \/ StartEdit(p)
        \/ EditSynthesize(p)
        \/ StartReexecute(p)
        \/ ReexecuteExecute(p)
        \/ Ack(p)

Spec == Init /\ [][Next]_vars

\* The scheduling the pipeline is designed for: requests are tasks served
\* concurrently, each suspended at its collaborator calls.
ConcurrentNext ==
    \E p \in Tasks :
        \/ StartRun(p)
        \/ Classify(p)
        \/ Retrieve(p)
        \/ Synthesize(p)
        \/ Execute(p)
        \/ Resynthesize(p)
        \/ StartEdit(p)
        \/ EditSynthesize(p)
        \/ StartReexecute(p)
        \/ ReexecuteExecute(p)
        \/ Ack(p)

ConcurrentInit ==
    /\ store = EmptyDict
    /\ db \in Databases
    /\ pc = [p \in Tasks |-> "idle"]
    /\ req = [p \in Tasks |-> NoReq]
    /\ loc = [p \in Tasks |-> NoLoc]
    /\ out = [p \in Tasks |-> NoOut]
    /\ calls = [p \in Tasks |-> NoCalls]
    /\ budget = MaxConcurrentCalls
    /\ last = NoLast

ConcurrentSpec == ConcurrentInit /\ [][ConcurrentNext]_vars

\* A collaborator call that was made returns to the task that made it.
Answer(p) ==
    \/ Classify(p)
    \/ Retrieve(p)
    \/ Synthesize(p)
    \/ Execute(p)
    \/ Resynthesize(p)
    \/ EditSynthesize(p)
    \/ ReexecuteExecute(p)

-----------------------------------------------------------------------------
(* Vocabulary of the properties *)

InFlight(p) == pc[p] \notin {"idle", "done"}
Pipeline(p) == req[p].op \in {"run", "edit"}
Returned(p) == pc[p] = "done" /\ out[p].kind = "ok"
Raised(p) == pc[p] = "done" /\ out[p].kind = "raise"

\* task p's handler returns or raises in this step
Completes(p) == pc[p] # "done" /\ pc'[p] = "done"

\* task p's handler takes the request `op` in this step
Begins(p, op) == pc[p] = "idle" /\ req'[p].op = op

\* a text of whitespace only (the empty text included)
IsBlank(text) == \A i \in DOMAIN text : text[i] = SP

-----------------------------------------------------------------------------
(* C1: repair loop termination. Every call of run and of apply_edit makes  *)
(* at most MAX_RETRIES repair syntheses after its first candidate, never   *)
(* holds or returns a retry count above MAX_RETRIES, and ends after a      *)
(* bounded number of collaborator answers: a call in flight can always     *)
(* take its next step, and each step brings it strictly closer to its end. *)
RetriesBounded ==
    \A p \in Tasks :
        /\ loc[p].retries <= MAX_RETRIES
        /\ calls[p].synth <= MAX_RETRIES + 1
        /\ calls[p].exec <= MAX_RETRIES + 1
        /\ (Returned(p) /\ Pipeline(p)) => out[p].body["retries"] <= MAX_RETRIES

\* collaborator answers a call at this point can still wait for
StepsLeft(at, retries) ==
    CASE at = "classify" -> 4 + 2 * MAX_RETRIES
      [] at = "retrieve" -> 3 + 2 * MAX_RETRIES
      [] at \in {"synth", "edit_synth"} -> 2 + 2 * MAX_RETRIES
      [] at = "exec" -> 1 + 2 * (MAX_RETRIES - retries)
      [] at = "resynth" -> 2 * (MAX_RETRIES - retries)
      [] at = "reexec" -> 1
      [] OTHER -> 0

C1_RepairLoopTerminates ==
    /\ [](RetriesBounded /\ \A p \in Tasks : InFlight(p) => ENABLED Answer(p))
    /\ [][\A p \in Tasks :
            (InFlight(p) /\ <<pc[p], loc[p], calls[p]>>' # <<pc[p], loc[p], calls[p]>>)
                => /\ StepsLeft(pc'[p], loc'[p].retries) >= 0
                   /\ StepsLeft(pc'[p], loc'[p].retries)
                         < StepsLeft(pc[p], loc[p].retries)]_vars

\* an edit has used up every repair attempt, as the run stored before it
C1_Witness ==
    \E p \in Tasks, id \in DOMAIN store :
        /\ Returned(p) /\ req[p].op = "edit" /\ req[p].memory_id # id
        /\ out[p].body["retries"] = MAX_RETRIES
        /\ calls[p].synth = MAX_RETRIES + 1
        /\ out[p].body["rows"] = << >>
        /\ "prompt" \in DOMAIN store[id]
        /\ Get(store[id], "retries", 0) = MAX_RETRIES

-----------------------------------------------------------------------------
(* C2: a run whose prompt the Domain Gate rejects returns not_chembl =     *)
(* TRUE, sql = "" and retries = 0 without calling retrieval, synthesis or  *)
(* execution; and wherever not_chembl is TRUE, in a returned run or in a   *)
(* stored state, the sql is empty and that run executed nothing.           *)
C2_GateShortCircuits ==
    /\ \A p \in Tasks :
        /\ (pc[p] = "done" /\ req[p].op = "run" /\ loc[p].verdict = "out") =>
              /\ out[p].kind = "ok"
              /\ out[p].body["not_chembl"] = TRUE
              /\ out[p].body["sql"] = EmptyText
              /\ out[p].body["retries"] = 0
              /\ calls[p].retrieve = 0 /\ calls[p].synth = 0 /\ calls[p].exec = 0
        /\ (Returned(p) /\ Pipeline(p) /\ out[p].body["not_chembl"] = TRUE) =>
              /\ out[p].body["sql"] = EmptyText
              /\ out[p].body["columns"] = << >> /\ out[p].body["rows"] = << >>
              /\ calls[p].exec = 0 /\ ~loc[p].executed
              /\ loc[p].verdict = "out"
    /\ \A id \in DOMAIN store :
        Get(store[id], "not_chembl", FALSE) = TRUE =>
            /\ Get(store[id], "sql", EmptyText) = EmptyText
            /\ Get(store[id], "rows", << >>) = << >>

\* a rejected run has returned and its state is stored
C2_Witness ==
    \E p \in Tasks :
        /\ Returned(p) /\ req[p].op = "run" /\ loc[p].verdict = "out"
        /\ calls[p].classify = 1
        /\ req[p].memory_id \in DOMAIN store
        /\ Get(store[req[p].memory_id], "not_chembl", FALSE) = TRUE

-----------------------------------------------------------------------------
(* C3: a call of the loop that ends with a successful execution after k    *)
(* failed attempts returns retries = k and repaired = (k > 0): 0 and FALSE *)
(* on a first-try success, 1 and TRUE after one failure and one repair;    *)
(* within a call the retry counter never decreases, and it grows exactly   *)
(* when a resynthesis is made, by one.                                     *)
RetriesCountFailures ==
    \A p \in Tasks :
        /\ (Returned(p) /\ Pipeline(p) /\ loc[p].executed) =>
              /\ calls[p].failed \in 0..MAX_RETRIES
              /\ out[p].body["retries"] = calls[p].failed
              /\ out[p].body["repaired"] = (calls[p].failed > 0)
        /\ InFlight(p) => loc[p].retries = (IF calls[p].synth = 0 THEN 0
                                             ELSE calls[p].synth - 1)

C3_RetriesCountRepairs ==
    /\ []RetriesCountFailures
    /\ [][\A p \in Tasks :
            (InFlight(p) /\ pc'[p] # "idle") =>
                /\ loc'[p].retries >= loc[p].retries
                /\ (pc[p] = "resynth" /\ pc'[p] = "exec")
                      => loc'[p].retries = loc[p].retries + 1
                /\ loc'[p].retries # loc[p].retries
                      => (pc[p] = "resynth" /\ calls'[p].synth = calls[p].synth + 1)]_vars

\* a run has returned a success after exactly one failure and one repair
C3_Witness ==
    \E p \in Tasks :
        /\ Returned(p) /\ req[p].op = "run" /\ loc[p].executed
        /\ calls[p].failed = 1 /\ calls[p].synth = 2
        /\ out[p].body["retries"] = 1 /\ out[p].body["repaired"] = TRUE
        /\ out[p].body["rows"] # << >>

-----------------------------------------------------------------------------
(* C4: when every attempt of a call of run or apply_edit has failed and    *)
(* the repair attempts are used up, the call does not raise: it returns    *)
(* the last SQL attempted, no columns, no rows and retries = MAX_RETRIES.  *)
C4_ExhaustionIsReturned ==
    \A p \in Tasks :
        (pc[p] = "done" /\ Pipeline(p) /\ calls[p].failed = MAX_RETRIES + 1) =>
            /\ out[p].kind = "ok"
            /\ out[p].body["sql"] = loc[p].sql
            /\ out[p].body["columns"] = << >>
            /\ out[p].body["rows"] = << >>
            /\ out[p].body["retries"] = MAX_RETRIES

\* an edit gave up on a blank candidate, after a run that gave up on a
\* statement the database rejects
C4_Witness ==
    \E p \in Tasks, id \in DOMAIN store :
        /\ Returned(p) /\ req[p].op = "edit" /\ req[p].memory_id # id
        /\ calls[p].failed = MAX_RETRIES + 1 /\ calls[p].exec = 0
        /\ IsBlank(out[p].body["sql"])
        /\ out[p].body["retries"] = MAX_RETRIES
        /\ "prompt" \in DOMAIN store[id]
        /\ Get(store[id], "sql", EmptyText) = SqlB
        /\ Get(store[id], "retries", 0) = MAX_RETRIES
        /\ Get(store[id], "rows", << >>) = << >>

-----------------------------------------------------------------------------
(* C5: when apply_edit completes successfully, what is stored under the id *)
(* is the state the call returned (the response carries its sql, tables,   *)
(* columns, rows, retries and repaired), and its sql is the candidate this *)
(* edit synthesized last, not the SQL the edit started from.               *)
C5_EditOverwrites ==
    [][\A p \in Tasks :
        (Completes(p) /\ req[p].op = "edit" /\ out'[p].kind = "ok") =>
            LET id == req[p].memory_id
                body == out'[p].body
            IN /\ id \in DOMAIN store'
               /\ store'[id]["sql"] = body["sql"]
               /\ store'[id]["structured_tables"] = body["related_tables"]
               /\ store'[id]["columns"] = body["columns"]
               /\ store'[id]["rows"] = body["rows"]
               /\ store'[id]["retries"] = body["retries"]
               /\ store'[id]["repaired"] = body["repaired"]
               /\ store'[id]["sql"] = loc[p].sql]_vars

\* an edit of a stored session has returned a statement other than its base
C5_Witness ==
    \E p \in Tasks :
        /\ Returned(p) /\ req[p].op = "edit" /\ req[p].prev_sql = EmptyText
        /\ loc[p].base = SqlB /\ loc[p].retries = 1
        /\ store[req[p].memory_id]["sql"] = SqlA
        /\ out[p].body["sql"] = SqlA

-----------------------------------------------------------------------------
(* C6: no step of a reexecute changes the session store, whether it ends   *)
(* with a result or with a failure: every id keeps the state it had. The   *)
(* result it returns is that of the stored SQL under the new limit.        *)
C6_ReexecuteKeepsStore ==
    /\ [][\A p \in Tasks :
            (req'[p].op = "reexecute" /\ pc'[p] # pc[p] /\ pc'[p] # "idle")
                => store' = store]_vars
    /\ [](\A p \in Tasks :
            (Returned(p) /\ req[p].op = "reexecute") =>
                /\ out[p].body["columns"] = Columns(loc[p].sql)
                /\ Len(out[p].body["rows"]) = Min(ExecLimit(p), DbRows)
                /\ \A i \in DOMAIN out[p].body["rows"] :
                      Len(out[p].body["rows"][i]) = Len(out[p].body["columns"]))

\* a reexecute returned fewer rows than the session keeps
C6_Witness ==
    \E p \in Tasks :
        /\ Returned(p) /\ req[p].op = "reexecute" /\ req[p].limit = 1
        /\ Len(out[p].body["rows"]) = 1
        /\ Len(store[req[p].memory_id]["rows"]) = DbRows
        /\ store[req[p].memory_id]["sql"] = loc[p].sql

-----------------------------------------------------------------------------
(* C7: a reexecute (with usable credentials) on an id under which nothing  *)
(* was ever stored raises the client error "Unknown memory_id" at once,    *)
(* without a call of the executor; ids are never removed from the store,   *)
(* so an id not in the store is one that was never stored.                 *)
C7_UnknownSession ==
    [][/\ DOMAIN store \subseteq DOMAIN store'
       /\ \A p \in Tasks :
            (/\ Begins(p, "reexecute")
             /\ CheckModelRunning(req'[p].api_key)
             /\ req'[p].memory_id \notin DOMAIN store) =>
                /\ pc'[p] = "done"
                /\ out'[p].kind = "raise"
                /\ out'[p].exc = "HTTPException"
                /\ out'[p].status = 400
                /\ out'[p].detail = UnknownSessionDetail
                /\ calls'[p].exec = 0]_vars

\* a reexecute on an unknown id was refused while another id is stored
C7_Witness ==
    \E p \in Tasks :
        /\ Raised(p) /\ req[p].op = "reexecute"
        /\ out[p].detail = UnknownSessionDetail
        /\ req[p].memory_id \notin DOMAIN store
        /\ DOMAIN store # {}
        /\ calls[p].exec = 0

-----------------------------------------------------------------------------
(* C8: a reexecute (with usable credentials) on an id whose stored state   *)
(* has no sql, an empty sql or a whitespace-only sql raises the client     *)
(* error "No SQL present", which is not the error of an unknown id, and    *)
(* does not call the executor.                                             *)
C8_NoStoredSql ==
    [][\A p \in Tasks :
        (/\ Begins(p, "reexecute")
         /\ CheckModelRunning(req'[p].api_key)
         /\ req'[p].memory_id \in DOMAIN store
         /\ IsBlank(Get(store[req'[p].memory_id], "sql", EmptyText))) =>
            /\ pc'[p] = "done"
            /\ out'[p].kind = "raise"
            /\ out'[p].exc = "HTTPException"
            /\ out'[p].status = 400
            /\ out'[p].detail = NoStoredSqlDetail
            /\ out'[p].detail # UnknownSessionDetail
            /\ calls'[p].exec = 0]_vars

\* a reexecute on the session of a run without context was refused
C8_Witness ==
    \E p \in Tasks :
        /\ Raised(p) /\ req[p].op = "reexecute"
        /\ out[p].detail = NoStoredSqlDetail
        /\ req[p].memory_id \in DOMAIN store
        /\ Get(store[req[p].memory_id], "no_context", FALSE) = TRUE
        /\ calls[p].exec = 0

\* the same on a session whose stored sql is whitespace only
C8_WhitespaceCase ==
    \E p \in Tasks :
        /\ Raised(p) /\ req[p].op = "reexecute"
        /\ out[p].detail = NoStoredSqlDetail
        /\ req[p].memory_id \in DOMAIN store
        /\ Get(store[req[p].memory_id], "sql", EmptyText) = <<SP>>

-----------------------------------------------------------------------------
(* C9: an edit (with usable credentials) takes as its base the sql stored  *)
(* under the id when there is a non-empty one, also when the caller sends  *)
(* a prev_sql; else the caller's prev_sql; and with neither it raises "no  *)
(* base SQL", which is not the unknown-session error, before any call of   *)
(* the synthesizer.                                                        *)
C9_BaseSqlResolution ==
    [][\A p \in Tasks :
        (Begins(p, "edit") /\ CheckModelRunning(req'[p].api_key)) =>
            LET id == req'[p].memory_id
                stored == IF id \in DOMAIN store
                              THEN Get(store[id], "sql", EmptyText)
                              ELSE EmptyText
                prev_sql == req'[p].prev_sql
            IN /\ stored # EmptyText =>
                      (pc'[p] = "edit_synth" /\ loc'[p].base = stored)
               /\ (stored = EmptyText /\ prev_sql # EmptyText) =>
                      (pc'[p] = "edit_synth" /\ loc'[p].base = prev_sql)
               /\ (stored = EmptyText /\ prev_sql = EmptyText) =>
                      /\ pc'[p] = "done"
                      /\ out'[p].kind = "raise"
                      /\ out'[p].detail = NoBaseSqlDetail
                      /\ out'[p].detail # UnknownSessionDetail
                      /\ calls'[p].synth = 0]_vars

\* an edit works on the stored sql although the caller sent another one
C9_Witness ==
    \E p \in Tasks :
        /\ pc[p] = "edit_synth" /\ req[p].op = "edit"
        /\ req[p].prev_sql = SqlB
        /\ loc[p].base = SqlA
        /\ store[req[p].memory_id]["sql"] = SqlA

-----------------------------------------------------------------------------
(* C10: the store is last-writer-wins without merge. The store changes     *)
(* only in the step in which a run or an edit returns; an edit that        *)
(* returns leaves under its id exactly the state built from its own call   *)
(* (no field of the state that was there before, whoever wrote it and      *)
(* whenever that call started) and leaves every other id alone.            *)
C10_LastSetWins ==
    [][/\ \A p \in Tasks :
            (Completes(p) /\ req[p].op = "edit" /\ out'[p].kind = "ok") =>
                LET id == req[p].memory_id
                IN /\ id \in DOMAIN store'
                   /\ store'[id] =
                        [sql |-> loc'[p].sql,
                         structured_tables |-> loc'[p].tables,
                         columns |-> out'[p].body["columns"],
                         rows |-> out'[p].body["rows"],
                         retries |-> loc'[p].retries,
                         repaired |-> loc'[p].retries > 0,
                         optimized_guidelines |->
                             out'[p].body["optimized_guidelines"]]
                   /\ \A other \in (DOMAIN store') \ {id} :
                         other \in DOMAIN store /\ store'[other] = store[other]
       /\ store' # store =>
            \E p \in Tasks :
                Completes(p) /\ Pipeline(p) /\ out'[p].kind = "ok"]_vars

\* two edits of one id overlapped (q did not start from what p stored) and
\* both returned; the store holds the state of q, which set last
C10_Witness ==
    \E p, q \in Tasks :
        /\ p # q
        /\ Returned(p) /\ req[p].op = "edit"
        /\ Returned(q) /\ req[q].op = "edit"
        /\ req[p].memory_id = req[q].memory_id
        /\ out[p].body["sql"] = SqlA /\ out[p].body["retries"] = 0
        /\ loc[q].base = SqlB /\ req[q].prev_sql = SqlB
        /\ out[q].body["retries"] = MAX_RETRIES
        /\ store[req[q].memory_id]["retries"] = MAX_RETRIES
        /\ store[req[q].memory_id]["sql"] = out[q].body["sql"]

-----------------------------------------------------------------------------
(* C11: a run whose prompt is in scope and for which retrieval finds no    *)
(* context returns, in the step in which retrieval answers, no_context =   *)
(* TRUE and sql = "" (no columns, no rows, no retries); retrieval was      *)
(* called once and neither synthesis nor execution is called. A returned   *)
(* run that reports no_context made exactly that one retrieval call.       *)
NoContextIsTerminal ==
    \A p \in Tasks :
        (Returned(p) /\ req[p].op = "run") =>
            /\ out[p].body["no_context"] = TRUE =>
                  /\ loc[p].verdict = "in"
                  /\ out[p].body["sql"] = EmptyText
                  /\ calls[p].retrieve = 1
                  /\ calls[p].synth = 0 /\ calls[p].exec = 0
            /\ (calls[p].retrieve = 1 /\ calls[p].synth = 0) =>
                  out[p].body["no_context"] = TRUE

C11_NoContextIsTerminal ==
    /\ []NoContextIsTerminal
    /\ [][\A p \in Tasks :
            (pc[p] = "retrieve" /\ Completes(p) /\ out'[p].kind = "ok") =>
                /\ req[p].op = "run" /\ loc[p].verdict = "in"
                /\ out'[p].body["no_context"] = TRUE
                /\ out'[p].body["sql"] = EmptyText
                /\ out'[p].body["columns"] = << >>
                /\ out'[p].body["rows"] = << >>
                /\ out'[p].body["retries"] = 0
                /\ calls'[p].retrieve = 1
                /\ calls'[p].synth = 0 /\ calls'[p].exec = 0
                /\ req[p].memory_id # NoId =>
                      "sql" \notin DOMAIN store'[req[p].memory_id]]_vars

\* a run without context has returned and is stored without any sql
C11_Witness ==
    \E p \in Tasks :
        /\ Returned(p) /\ req[p].op = "run" /\ loc[p].verdict = "in"
        /\ out[p].body["no_context"] = TRUE /\ out[p].body["sql"] = EmptyText
        /\ calls[p].classify = 1 /\ calls[p].retrieve = 1 /\ calls[p].synth = 0
        /\ req[p].memory_id \in DOMAIN store
        /\ Get(store[req[p].memory_id], "no_context", FALSE) = TRUE

-----------------------------------------------------------------------------
(* C12: idempotence of reexecute. A reexecute that directly follows a      *)
(* reexecute of the same id with the same limit (no other request between  *)
(* them, no transport or credential failure in either) is answered exactly *)
(* as the first was: the same columns and rows, or the same failure; and   *)
(* neither of the two changes the store, so the stored sql is the same     *)
(* before, between and after them.                                         *)
AnsweredByExecutor(o) == o.exc \notin {"CollaboratorFailure", "ValueError"}

-----------------------------------------------------------------------------
(* C13: when a collaborator call (classification, retrieval, synthesis,   *)
(* execution) of a run, an edit or a reexecute fails for an infrastructure *)
(* reason, the handler raises that failure at once: no state is returned   *)
(* or stored, no repair is started and no retry is counted. The repair     *)
(* loop is entered only after an attempt whose SQL failed, and the retry   *)
(* counter moves only in a resynthesis that follows such an attempt.       *)
SqlFailures == {"ExecutionError", "empty sql"}

C13_InfrastructureFailurePropagates ==
    /\ [][\A p \in Tasks :
            /\ (InFlight(p) /\ loc'[p].err = CollaboratorFailure.type
                    /\ pc'[p] # "idle") =>
                  /\ pc'[p] = "done"
                  /\ out'[p].kind = "raise"
                  /\ out'[p].exc = CollaboratorFailure.type
                  /\ out'[p].detail = CollaboratorFailure.detail
                  /\ out'[p].body = EmptyDict
                  /\ store' = store
                  /\ loc'[p].retries = loc[p].retries
                  /\ calls'[p].failed = calls[p].failed
            /\ (InFlight(p) /\ pc'[p] = "resynth") =>
                  /\ pc[p] = "exec"
                  /\ loc'[p].err \in SqlFailures
                  /\ calls'[p].failed = calls[p].failed + 1
            /\ (InFlight(p) /\ pc'[p] # "idle"
                    /\ loc'[p].retries # loc[p].retries) =>
                  (pc[p] = "resynth" /\ loc[p].err \in SqlFailures)]_vars
    /\ [](\A p \in Tasks :
            (Returned(p) /\ Pipeline(p)) => loc[p].err # CollaboratorFailure.type)

\* a run lost its executor to a transport failure after one repair; an
\* edit and a reexecute can lose theirs as well
C13_Witness ==
    \E p \in Tasks :
        /\ Raised(p) /\ req[p].op = "run"
        /\ out[p].exc = CollaboratorFailure.type
        /\ calls[p].failed = 1 /\ calls[p].exec = 2 /\ loc[p].retries = 1
        /\ req[p].memory_id \in Ids /\ req[p].memory_id \notin DOMAIN store

-----------------------------------------------------------------------------
(* C14: in every response a run or an edit returns, repaired is TRUE if    *)
(* and only if retries > 0, whichever way the call ended (rejected by the  *)
(* gate, without context, first-try success, repaired, exhausted).         *)
C14_RepairedIffRetries ==
    \A p \in Tasks :
        (Returned(p) /\ Pipeline(p)) =>
            /\ out[p].body["repaired"] \in BOOLEAN
            /\ out[p].body["retries"] \in 0..MAX_RETRIES
            /\ out[p].body["repaired"] = (out[p].body["retries"] > 0)

\* an edit has returned repaired after one repair, over the session of a
\* run that needed none
C14_Witness ==
    \E p \in Tasks :
        /\ Returned(p) /\ req[p].op = "edit"
        /\ out[p].body["retries"] = 1 /\ out[p].body["repaired"] = TRUE
        /\ \E id \in DOMAIN store :
              /\ "prompt" \in DOMAIN store[id]
              /\ Get(store[id], "retries", 1) = 0
              /\ Get(store[id], "repaired", TRUE) = FALSE

-----------------------------------------------------------------------------
(* C15: a run that returns under an id replaces whatever was stored under *)
(* that id wholesale: the stored state is then exactly the state of this   *)
(* run plus its prompt, field for field what the response reports, and     *)
(* nothing of the state before; a gate-rejected or no-context run stored   *)
(* over a session that had SQL leaves no SQL, columns or rows under the    *)
(* id. A run without an id stores nothing. No step ever removes an id      *)
(* from the store.                                                         *)
RunFields(body) ==
    IF body["not_chembl"] THEN {"not_chembl", "chembl_reason", "sql", "retries", "prompt"}
    ELSE IF body["no_context"] THEN {"no_context", "prompt"}
    ELSE {"sql", "structured_tables", "columns", "rows", "retries", "repaired",
          "optimized_guidelines", "prompt"}

C15_RunReplacesSession ==
    [][/\ DOMAIN store \subseteq DOMAIN store'
       /\ \A p \in Tasks :
            (Completes(p) /\ req[p].op = "run" /\ out'[p].kind = "ok") =>
                LET id == req[p].memory_id
                    body == out'[p].body
                IN /\ id = NoId => store' = store
                   /\ id # NoId =>
                        /\ id \in DOMAIN store'
                        /\ DOMAIN store'[id] = RunFields(body)
                        /\ store'[id]["prompt"] = req[p].prompt
                        /\ Get(store'[id], "sql", EmptyText) = body["sql"]
                        /\ Get(store'[id], "columns", << >>) = body["columns"]
                        /\ Get(store'[id], "rows", << >>) = body["rows"]
                        /\ Get(store'[id], "retries", 0) = body["retries"]
                        /\ Get(store'[id], "structured_tables", << >>)
                              = body["related_tables"]
                        /\ (body["not_chembl"] \/ body["no_context"]) =>
                              /\ Get(store'[id], "sql", EmptyText) = EmptyText
                              /\ Get(store'[id], "rows", << >>) = << >>
                        /\ \A other \in (DOMAIN store') \ {id} :
                              other \in DOMAIN store /\ store'[other] = store[other]]_vars

\* a gate-rejected run was stored over a session that had SQL and rows
C15_Witness ==
    \E p \in Tasks :
        /\ Returned(p) /\ req[p].op = "run" /\ loc[p].verdict = "out"
        /\ loc[p].prior = SqlA
        /\ req[p].memory_id \in DOMAIN store
        /\ store[req[p].memory_id]["sql"] = EmptyText
        /\ "rows" \notin DOMAIN store[req[p].memory_id]
        /\ store[req[p].memory_id]["not_chembl"] = TRUE

\* the same for a run without context
C15_NoContextCase ==
    \E p \in Tasks :
        /\ Returned(p) /\ req[p].op = "run" /\ out[p].body["no_context"]
        /\ loc[p].prior = SqlA
        /\ req[p].memory_id \in DOMAIN store
        /\ "sql" \notin DOMAIN store[req[p].memory_id]

-----------------------------------------------------------------------------
(* C16: within one run the collaborator calls are made one at a time and  *)
(* in the order classify, retrieve, synthesize, execute: each stage is     *)
(* entered only from the stage before it, after exactly one call of each   *)
(* earlier stage. After the first attempt the calls alternate resynthesize *)
(* and execute, and a resynthesis starts from the SQL of the attempt that  *)
(* has just failed and from the error of that attempt.                     *)
StagesInOrder ==
    \A p \in Tasks :
        (req[p].op = "run" /\ InFlight(p)) =>
            LET c == calls[p]
                attempts == c.failed + (IF loc[p].executed THEN 1 ELSE 0)
            IN /\ pc[p] \in {"classify", "retrieve", "synth", "exec", "resynth"}
               /\ pc[p] = "classify" =>
                     (c.classify = 0 /\ c.retrieve = 0 /\ c.synth = 0 /\ c.exec = 0)
               /\ pc[p] = "retrieve" =>
                     (c.classify = 1 /\ c.retrieve = 0 /\ c.synth = 0 /\ c.exec = 0)
               /\ pc[p] = "synth" =>
                     (c.classify = 1 /\ c.retrieve = 1 /\ c.synth = 0 /\ c.exec = 0)
               /\ pc[p] \in {"exec", "resynth"} =>
                     (c.classify = 1 /\ c.retrieve = 1 /\ c.exec <= attempts)
               /\ pc[p] = "exec" => c.synth = attempts + 1
               /\ pc[p] = "resynth" => (c.synth = attempts /\ attempts >= 1)

C16_StagesInOrder ==
    /\ []StagesInOrder
    /\ [][\A p \in Tasks :
            (req'[p].op = "run" /\ pc'[p] # pc[p] /\ pc'[p] \notin {"idle", "done"}) =>
                /\ pc'[p] = "classify" => pc[p] = "idle"
                /\ pc'[p] = "retrieve" => pc[p] = "classify"
                /\ pc'[p] = "synth" => pc[p] = "retrieve"
                /\ pc'[p] = "exec" => pc[p] \in {"synth", "resynth"}
                /\ pc'[p] = "resynth" =>
                      /\ pc[p] = "exec"
                      /\ loc'[p].sql = loc[p].sql
                      /\ loc'[p].err =
                            (IF IsBlank(loc[p].sql) THEN "empty sql"
                                                    ELSE "ExecutionError")
                      /\ ~IsBlank(loc[p].sql) => ~DbAccepts(loc[p].sql)]_vars

\* a run went through every stage once and through two repairs, the last
\* of them successful
C16_Witness ==
    \E p \in Tasks :
        /\ Returned(p) /\ req[p].op = "run" /\ loc[p].executed
        /\ calls[p].classify = 1 /\ calls[p].retrieve = 1
        /\ calls[p].synth = 3 /\ calls[p].exec = 3 /\ calls[p].failed = 2
        /\ out[p].body["sql"] = SqlA

-----------------------------------------------------------------------------
(* C17: an empty or whitespace-only candidate of the synthesizer, in a    *)
(* run or in an edit, counts as a failed execution: it is never returned   *)
(* as a success; while retries are left it sends the call to a resynthesis *)
(* that consumes one retry, as a statement the database rejects does; with *)
(* no retry left the call returns the exhausted state. A call all of whose *)
(* candidates were blank returns retries = MAX_RETRIES, no columns and no  *)
(* rows.                                                                   *)
C17_BlankSqlIsAFailure ==
    /\ [][\A p \in Tasks :
            (Pipeline(p) /\ pc[p] = "exec" /\ pc'[p] # "exec") =>
                LET blank == IsBlank(loc[p].sql)
                    rejected == /\ ~blank /\ ~DbAccepts(loc[p].sql)
                                /\ loc'[p].err # CollaboratorFailure.type
                IN /\ blank => loc'[p].err = "empty sql"
                   /\ (blank \/ rejected) =>
                        /\ calls'[p].failed = calls[p].failed + 1
                        /\ loc'[p].retries = loc[p].retries
                        /\ loc[p].retries < MAX_RETRIES => pc'[p] = "resynth"
                        /\ loc[p].retries = MAX_RETRIES =>
                              /\ pc'[p] = "done" /\ out'[p].kind = "ok"
                              /\ out'[p].body["sql"] = loc[p].sql
                              /\ out'[p].body["retries"] = MAX_RETRIES
                              /\ out'[p].body["columns"] = << >>
                              /\ out'[p].body["rows"] = << >>]_vars
    /\ [](\A p \in Tasks :
            /\ (Returned(p) /\ Pipeline(p) /\ loc[p].verdict # "out"
                    /\ calls[p].synth > 0 /\ calls[p].exec = 0) =>
                  /\ IsBlank(out[p].body["sql"])
                  /\ calls[p].synth = MAX_RETRIES + 1
                  /\ calls[p].failed = MAX_RETRIES + 1
                  /\ out[p].body["retries"] = MAX_RETRIES
                  /\ out[p].body["columns"] = << >>
                  /\ out[p].body["rows"] = << >>
            /\ (Returned(p) /\ Pipeline(p) /\ out[p].body["rows"] # << >>) =>
                  ~IsBlank(out[p].body["sql"]))

\* a run was repaired after a blank first candidate
C17_Witness ==
    \E p \in Tasks :
        /\ Returned(p) /\ req[p].op = "run" /\ loc[p].executed
        /\ calls[p].synth = 2 /\ calls[p].exec = 1 /\ calls[p].failed = 1
        /\ out[p].body["retries"] = 1 /\ out[p].body["repaired"] = TRUE
        /\ out[p].body["sql"] = SqlA

\* an edit all of whose candidates were blank has returned
C17_AllBlankCase ==
    \E p \in Tasks :
        /\ Returned(p) /\ req[p].op = "edit"
        /\ calls[p].synth = MAX_RETRIES + 1 /\ calls[p].exec = 0
        /\ out[p].body["sql"] = <<SP>>
        /\ out[p].body["retries"] = MAX_RETRIES

-----------------------------------------------------------------------------
(* C18: the retries and repaired an edit returns count the repairs of     *)
(* that edit call alone, whatever the session held before: retries is the  *)
(* number of resyntheses of this call and repaired says whether there was  *)
(* one; an edit whose first candidate executes returns retries = 0 and     *)
(* repaired = FALSE, also over a session that had retries > 0; and the     *)
(* same two values are what is stored under the id by the edit.            *)
C18_EditCountsItsOwnRepairs ==
    [][\A p \in Tasks :
        (Completes(p) /\ req[p].op = "edit" /\ out'[p].kind = "ok") =>
            LET id == req[p].memory_id
                body == out'[p].body
            IN /\ body["retries"] = calls'[p].synth - 1
               /\ body["repaired"] = (calls'[p].synth > 1)
               /\ (loc'[p].executed /\ calls'[p].failed = 0) =>
                     (body["retries"] = 0 /\ body["repaired"] = FALSE)
               /\ store'[id]["retries"] = body["retries"]
               /\ store'[id]["repaired"] = body["repaired"]]_vars

\* an edit that succeeded at once has returned over a session that had
\* used up its retries
C18_Witness ==
    \E p \in Tasks :
        /\ Returned(p) /\ req[p].op = "edit" /\ loc[p].executed
        /\ loc[p].prior_retries = MAX_RETRIES
        /\ calls[p].synth = 1 /\ calls[p].failed = 0
        /\ out[p].body["retries"] = 0 /\ out[p].body["repaired"] = FALSE
        /\ store[req[p].memory_id]["retries"] = 0
        /\ store[req[p].memory_id]["repaired"] = FALSE

-----------------------------------------------------------------------------
(* C19: a reexecute that gets past the checks of the handler calls the    *)
(* executor exactly once, with the SQL stored under the id and the limit   *)
(* of the request, and never the classifier, the retrieval or the          *)
(* synthesizer; when that one execution fails the reexecute raises the     *)
(* failure: it starts no repair and counts no retry.                       *)
ReexecuteOnlyExecutes ==
    \A p \in Tasks :
        req[p].op = "reexecute" =>
            /\ pc[p] \in {"reexec", "done"}
            /\ calls[p].classify = 0 /\ calls[p].retrieve = 0
            /\ calls[p].synth = 0 /\ calls[p].failed = 0
            /\ loc[p].retries = 0
            /\ calls[p].exec = (IF pc[p] = "done" /\ loc[p].sql # EmptyText
                                    THEN 1 ELSE 0)
            /\ Returned(p) =>
                  /\ calls[p].exec = 1
                  /\ out[p].body = ReexecuteResponse(Columns(loc[p].sql),
                                                     Rows(loc[p].sql, ExecLimit(p)))

C19_ReexecuteOnlyExecutes ==
    /\ []ReexecuteOnlyExecutes
    /\ [][\A p \in Tasks :
            /\ (req'[p].op = "reexecute" /\ pc'[p] = "reexec" /\ pc[p] # "reexec") =>
                  /\ loc'[p].sql = store[req'[p].memory_id]["sql"]
                  /\ ~IsBlank(loc'[p].sql)
            /\ (pc[p] = "reexec" /\ pc'[p] # "reexec") =>
                  /\ pc'[p] = "done"
                  /\ calls'[p].exec = 1
                  /\ loc'[p].sql = loc[p].sql
                  /\ (~DbAccepts(loc[p].sql)
                          /\ loc'[p].err # CollaboratorFailure.type) =>
                        /\ out'[p].kind = "raise"
                        /\ out'[p].exc = "ExecutionError"
                        /\ out'[p].body = EmptyDict]_vars

\* a reexecute of the statement an exhausted run left behind has failed
\* after its one execution
C19_Witness ==
    \E p \in Tasks :
        /\ Raised(p) /\ req[p].op = "reexecute"
        /\ out[p].exc = "ExecutionError"
        /\ calls[p].exec = 1 /\ calls[p].synth = 0
        /\ loc[p].sql = SqlB
        /\ store[req[p].memory_id]["sql"] = SqlB
        /\ store[req[p].memory_id]["retries"] = MAX_RETRIES

\* a reexecute has returned the rows of its one execution
C19_SuccessCase ==
    \E p \in Tasks :
        /\ Returned(p) /\ req[p].op = "reexecute" /\ req[p].limit = 3
        /\ calls[p].exec = 1 /\ calls[p].synth = 0
        /\ Len(out[p].body["rows"]) = DbRows

-----------------------------------------------------------------------------
(* A session an earlier run has left under an id: the state of a run      *)
(* whose first candidate executed, with its prompt.                        *)
StoredSession ==
    Put(LoopState([NoLoc EXCEPT !.sql = SqlA, !.tables = Tables],
                  Columns(SqlA), Rows(SqlA, RUN_LIMIT)),
        "prompt", "list approved drugs")

RaceInit ==
    /\ store = [id \in {"m1"} |-> StoredSession]
    /\ db \in Databases
    /\ pc = [p \in Tasks |-> "idle"]
    /\ req = [p \in Tasks |-> NoReq]
    /\ loc = [p \in Tasks |-> NoLoc]
    /\ out = [p \in Tasks |-> NoOut]
    /\ calls = [p \in Tasks |-> NoCalls]
    /\ budget = MaxConcurrentCalls
    /\ last = NoLast

\* Requests served concurrently on a server that already holds a session.
RaceSpec == RaceInit /\ [][ConcurrentNext]_vars

\* the server holds that session and nothing else
SessionIsStored == store = [id \in {"m1"} |-> StoredSession]

(* C20: however a reexecute interleaves with runs and edits of the same    *)
(* id, the SQL it hands to the executor is the whole sql of the state that *)
(* was stored under the id when the reexecute looked it up, never a blank  *)
(* text and never a mixture: the lookup that feeds the executor sees the   *)
(* state the handler has just checked, and what other requests store       *)
(* while the executor works does not change the SQL being executed.        *)
C20_ReexecuteSeesOneStoredState ==
    /\ [](\A p \in Tasks :
            (req[p].op = "reexecute" /\ (pc[p] = "reexec" \/ calls[p].exec > 0)) =>
                /\ ~IsBlank(loc[p].sql)
                /\ loc[p].sql \in Statements
                /\ Returned(p) => out[p].body["columns"] = Columns(loc[p].sql))
    /\ [][\A p \in Tasks :
            /\ (req'[p].op = "reexecute" /\ pc'[p] = "reexec" /\ pc[p] # "reexec") =>
                  /\ req'[p].memory_id \in DOMAIN store
                  /\ loc'[p].sql = store[req'[p].memory_id]["sql"]
                  /\ ReexecutePrecheck(store[req'[p].memory_id]) = NoOut
            /\ (pc[p] = "reexec" /\ pc'[p] # "idle") =>
                  loc'[p].sql = loc[p].sql]_vars

\* a reexecute is executing the SQL it found while a gate-rejected run of
\* the same id, which started and returned meanwhile, has left the session
\* without SQL
C20_Witness ==
    \E p, q \in Tasks :
        /\ pc[p] = "reexec" /\ req[p].op = "reexecute"
        /\ Returned(q) /\ req[q].op = "run" /\ loc[q].verdict = "out"
        /\ req[q].memory_id = req[p].memory_id
        /\ loc[q].prior = SqlA /\ loc[p].sql = SqlA
        /\ store[req[p].memory_id]["sql"] = EmptyText

-----------------------------------------------------------------------------
(* C21: a request that ends in a failure leaves the session store exactly *)
(* as it was: a run that raises (credentials, collaborator failure) stores *)
(* nothing; an edit that fails (credentials, no base SQL, collaborator     *)
(* failure) neither creates nor changes the entry of its id; a reexecute   *)
(* that fails changes nothing either. A run without a memory_id changes    *)
(* no entry in any of its steps, however it ends.                          *)
C21_FailureLeavesStore ==
    [][\A p \in Tasks :
        LET r == IF pc[p] = "idle" THEN req'[p] ELSE req[p]
        IN /\ (Completes(p) /\ out'[p].kind = "raise") =>
                 /\ store' = store
                 /\ out'[p].body = EmptyDict
           /\ (pc'[p] # pc[p] /\ pc'[p] # "idle"
                   /\ r.op = "run" /\ r.memory_id = NoId) =>
                 store' = store
           /\ (pc'[p] # pc[p] /\ pc'[p] \notin {"idle", "done"}) =>
                 store' = store]_vars

\* an edit of a stored session has lost its synthesizer during a repair;
\* the session still holds the SQL the edit started from
C21_Witness ==
    \E p \in Tasks :
        /\ Raised(p) /\ req[p].op = "edit"
        /\ loc[p].err = CollaboratorFailure.type
        /\ calls[p].failed = 1 /\ calls[p].synth = 2
        /\ req[p].prev_sql = EmptyText
        /\ req[p].memory_id \in DOMAIN store
        /\ store[req[p].memory_id]["sql"] = loc[p].base
        /\ "prompt" \in DOMAIN store[req[p].memory_id]

\* a run without a memory_id has returned a result; the one session there
\* is is that of another run
C21_NoIdCase ==
    \E p \in Tasks :
        /\ Returned(p) /\ req[p].op = "run" /\ req[p].memory_id = NoId
        /\ out[p].body["sql"] = SqlB /\ loc[p].executed
        /\ DOMAIN store = {"m1"} /\ Get(store["m1"], "sql", EmptyText) = SqlA

-----------------------------------------------------------------------------
C22_NegativeCase ==
    \E p \in Tasks :
        /\ Returned(p) /\ req[p].op = "reexecute" /\ req[p].limit = -1
        /\ calls[p].exec = 1
        /\ Len(out[p].body["rows"]) = 1

====
